---- MODULE Spec2Model ----
(***************************************************************************)
(* Forward-mode automatic differentiation: cnn::ArrayWithOp (the tangent   *)
(* vector) and cnn::Jet (value + gradient) of src/cnn/autodiff/jet.h.      *)
(*                                                                         *)
(* Dtype is modelled by exact rationals [n, d] in lowest terms (every      *)
(* finite double is a rational; rounding is left out).  IEEE non-finite    *)
(* values are outside the value domain: an operation is applied only where *)
(* its scalar arithmetic stays finite (no division by zero, log of a       *)
(* positive number, sqrt of a positive perfect square).                    *)
(* C++ indices are 0-based; a gradient is a sequence, so C++ index i is    *)
(* element i + 1.                                                          *)
(***************************************************************************)
EXTENDS Integers, Sequences, FiniteSets, TLC

\* Largest problem dimensionality passed to Dim(...).
MaxDim == 2
\* Largest magnitude of a scalar handed in by the caller, and of a component
\* of a jet that is used again as an operand.
MaxVal == 2

Dims == 1..MaxDim

-----------------------------------------------------------------------------
\* Dtype: scalar arithmetic.

Abs(x) == IF x < 0 THEN -x ELSE x

RECURSIVE GCD(_, _)
GCD(x, y) == IF y = 0 THEN x ELSE GCD(y, x % y)

\* The rational p/q (q # 0) in lowest terms with a positive denominator.
Rat(p, q) ==
  LET k == GCD(Abs(p), Abs(q))
      sg == IF q < 0 THEN -1 ELSE 1
  IN [n |-> (sg * p) \div k, d |-> (sg * q) \div k]

R(k) == [n |-> k, d |-> 1]
Zero == R(0)
One == R(1)

RAdd(x, y) == Rat(x.n * y.d + y.n * x.d, x.d * y.d)
RSub(x, y) == Rat(x.n * y.d - y.n * x.d, x.d * y.d)
RMul(x, y) == Rat(x.n * y.n, x.d * y.d)
RDiv(x, y) == Rat(x.n * y.d, x.d * y.n)
RNeg(x) == [n |-> -x.n, d |-> x.d]

REq(x, y) == x.n * y.d = y.n * x.d
RNe(x, y) == x.n * y.d # y.n * x.d
RLt(x, y) == x.n * y.d < y.n * x.d
RLe(x, y) == x.n * y.d <= y.n * x.d
RGt(x, y) == x.n * y.d > y.n * x.d
RGe(x, y) == x.n * y.d >= y.n * x.d

\* Scalars the caller hands in, and the components of a gradient that is
\* used again.
Vals == {R(k) : k \in (-1)..MaxVal}
\* Values the caller gives a jet: the scalars, and the perfect square 4.
InputVals == Vals \cup {R(4)}

\* std::exp, tabulated to three decimals on the integers it is applied to.
HasExp(x) == x.d = 1 /\ x.n \in (-2)..4
StdExp(x) ==
  CASE x.n = -2 -> Rat(135, 1000)
    [] x.n = -1 -> Rat(368, 1000)
    [] x.n = 0 -> R(1)
    [] x.n = 1 -> Rat(2718, 1000)
    [] x.n = 2 -> Rat(7389, 1000)
    [] x.n = 3 -> Rat(20086, 1000)
    [] OTHER -> Rat(54598, 1000)

\* std::log, tabulated to three decimals on the positive integers up to 4.
HasLog(x) == x.d = 1 /\ x.n \in 1..4
StdLog(x) ==
  CASE x.n = 1 -> R(0)
    [] x.n = 2 -> Rat(693, 1000)
    [] x.n = 3 -> Rat(1099, 1000)
    [] OTHER -> Rat(1386, 1000)

\* std::sqrt, exact on the positive perfect squares.
IsSquare(k) == \E r \in 0..k : r * r = k
ISqrt(k) == CHOOSE r \in 0..k : r * r = k
HasSqrt(x) == x.n > 0 /\ IsSquare(x.n) /\ IsSquare(x.d)
StdSqrt(x) == Rat(ISqrt(x.n), ISqrt(x.d))

-----------------------------------------------------------------------------
\* ArrayWithOp<Dtype>: the tangent vector.

ArrNew(len) == [k \in 1..len |-> Zero]
ArrN(v) == Len(v)
ArrHasSameShape(v, w) == Len(v) = Len(w)
ArrInRange(v, i) == 0 <= i /\ i < Len(v)

\* Elementwise operators.  ArrAdd and ArrSub are reached only past
\* CHECK(a.has_same_shape(b)).
ArrAdd(v, w) == [k \in 1..ArrN(v) |-> RAdd(v[k], w[k])]
ArrSub(v, w) == [k \in 1..ArrN(v) |-> RSub(v[k], w[k])]
ArrNeg(v) == [k \in 1..ArrN(v) |-> RNeg(v[k])]
ArrMulS(v, s) == [k \in 1..ArrN(v) |-> RMul(v[k], s)]
SMulArr(s, v) == [k \in 1..ArrN(v) |-> RMul(v[k], s)]
ArrDivS(v, s) == [k \in 1..ArrN(v) |-> RDiv(v[k], s)]

\* grad_.assign(grad_.size(), 0)
ArrAssignZero(v) == [k \in 1..Len(v) |-> Zero]
\* grad_.at(i) = x, for i in range
ArrPut(v, i, x) == [v EXCEPT ![i + 1] = x]

-----------------------------------------------------------------------------
\* Jet<Dtype>

MkJet(x, gr) == [val |-> x, grad |-> gr]
NoJet == MkJet(Zero, << >>)

\* Results of an operation: a jet returned by value, the object itself (a
\* constructor, a member that changes the object), a bool, a scalar, or
\* nothing (a fault).
OkJet(j) == [kind |-> "jet", out |-> j, b |-> FALSE, x |-> Zero, fault |-> "none"]
OkSelf(j) == [kind |-> "self", out |-> j, b |-> FALSE, x |-> Zero, fault |-> "none"]
OkBool(t) == [kind |-> "bool", out |-> NoJet, b |-> t, x |-> Zero, fault |-> "none"]
OkScalar(y) == [kind |-> "scalar", out |-> NoJet, b |-> FALSE, x |-> y, fault |-> "none"]
Fault(name) == [kind |-> "none", out |-> NoJet, b |-> FALSE, x |-> Zero, fault |-> name]

\* explicit Jet(Dim dim)
JetDefault(dm) == MkJet(Zero, ArrNew(dm))
\* Jet(Dim dim, const Dtype& val)
JetConst(dm, x) == MkJet(x, ArrNew(dm))
\* A variable constructor that clamps its index into range.
JetVar_m(dm, x, i, der) ==
  OkJet(MkJet(x, ArrPut(ArrNew(dm), IF i < 0 THEN 0 ELSE IF i >= dm THEN dm - 1 ELSE i, der)))

\* Jet(Dim dim, const Dtype& val, int i, Dtype derivative): grad_.at(i) throws
\* std::out_of_range out of range, and no jet is constructed.
JetVar(dm, x, i, der) ==
  IF ArrInRange(ArrNew(dm), i)
  THEN OkJet(MkJet(x, ArrPut(ArrNew(dm), i, der)))
  ELSE Fault("index")

\* Dtype derivative = 1
DefaultDerivative == One

JetDim(f) == ArrN(f.grad)
JetHasSameShape(f, g) == ArrHasSameShape(f.grad, g.grad)

\* operator-(const Jet&)
JetNeg(f) == OkJet(MkJet(RNeg(f.val), ArrNeg(f.grad)))

\* Jet and scalar: operator+(Jet, Dtype) ... operator/(Dtype, Jet)
JetAddS(f, s) == OkJet(MkJet(RAdd(f.val, s), f.grad))
SAddJet(s, f) == OkJet(MkJet(RAdd(f.val, s), f.grad))
\* jet - scalar written as scalar - jet is: the gradient negated.
JetSubS_m(f, s) == OkJet(MkJet(RSub(f.val, s), ArrNeg(f.grad)))
JetSubS(f, s) == OkJet(MkJet(RSub(f.val, s), f.grad))
SSubJet(s, f) == OkJet(MkJet(RSub(s, f.val), ArrNeg(f.grad)))
JetMulS(f, s) == OkJet(MkJet(RMul(f.val, s), ArrMulS(f.grad, s)))
SMulJet(s, f) == OkJet(MkJet(RMul(f.val, s), ArrMulS(f.grad, s)))
JetDivS(f, s) == OkJet(MkJet(RDiv(f.val, s), ArrDivS(f.grad, s)))
SDivJet(s, f) ==
  OkJet(MkJet(RDiv(s, f.val),
              ArrDivS(SMulArr(RNeg(s), f.grad), RMul(f.val, f.val))))

\* Jet and jet: the gradient expression runs into CHECK(a.has_same_shape(b))
\* of the ArrayWithOp operator+ or operator-, which aborts the process.
JetAdd(f, g) ==
  IF ~ArrHasSameShape(f.grad, g.grad) THEN Fault("shape")
  ELSE OkJet(MkJet(RAdd(f.val, g.val), ArrAdd(f.grad, g.grad)))

JetSub(f, g) ==
  IF ~ArrHasSameShape(f.grad, g.grad) THEN Fault("shape")
  ELSE OkJet(MkJet(RSub(f.val, g.val), ArrSub(f.grad, g.grad)))

\* A product rule with the wrong sign.
JetMul_m(f, g) ==
  LET l == SMulArr(f.val, g.grad)
      r == SMulArr(g.val, f.grad)
  IN IF ~ArrHasSameShape(l, r) THEN Fault("shape")
     ELSE OkJet(MkJet(RMul(f.val, g.val), ArrSub(l, r)))

JetMul(f, g) ==
  LET l == SMulArr(f.val, g.grad)
      r == SMulArr(g.val, f.grad)
  IN IF ~ArrHasSameShape(l, r) THEN Fault("shape")
     ELSE OkJet(MkJet(RMul(f.val, g.val), ArrAdd(l, r)))

\* A quotient rule that divides by g.val instead of its square.
JetDiv_m(f, g) ==
  LET l == ArrDivS(f.grad, g.val)
      r == ArrDivS(SMulArr(f.val, g.grad), g.val)
  IN IF ~ArrHasSameShape(l, r) THEN Fault("shape")
     ELSE OkJet(MkJet(RDiv(f.val, g.val), ArrSub(l, r)))

JetDiv(f, g) ==
  LET l == ArrDivS(f.grad, g.val)
      r == ArrDivS(SMulArr(f.val, g.grad), RMul(g.val, g.val))
  IN IF ~ArrHasSameShape(l, r) THEN Fault("shape")
     ELSE OkJet(MkJet(RDiv(f.val, g.val), ArrSub(l, r)))

\* operator== that compares the gradients too.
JetEq_m(f, g) ==
  IF ~JetHasSameShape(f, g) THEN Fault("shape")
  ELSE OkBool(REq(f.val, g.val) /\ f.grad = g.grad)
\* Comparisons: CHECK(f.has_same_shape(g)), then the values are compared.
JetEq(f, g) == IF ~JetHasSameShape(f, g) THEN Fault("shape") ELSE OkBool(REq(f.val, g.val))
JetNe(f, g) == IF ~JetHasSameShape(f, g) THEN Fault("shape") ELSE OkBool(RNe(f.val, g.val))
JetLt(f, g) == IF ~JetHasSameShape(f, g) THEN Fault("shape") ELSE OkBool(RLt(f.val, g.val))
JetLe(f, g) == IF ~JetHasSameShape(f, g) THEN Fault("shape") ELSE OkBool(RLe(f.val, g.val))
\* operator> has no CHECK.
JetGt(f, g) == OkBool(RGt(f.val, g.val))
\* operator>= without its CHECK, as operator> is written.
JetGe_m(f, g) == OkBool(RGe(f.val, g.val))
JetGe(f, g) == IF ~JetHasSameShape(f, g) THEN Fault("shape") ELSE OkBool(RGe(f.val, g.val))

\* max with (f <= g) ? g : f, which takes g at a tie.
JetMax_m(f, g) ==
  LET c == JetLe(f, g)
  IN IF c.fault # "none" THEN c
     ELSE IF c.b THEN OkJet(g) ELSE OkJet(f)

\* max(f, g): return (f < g) ? g : f;
JetMax(f, g) ==
  LET c == JetLt(f, g)
  IN IF c.fault # "none" THEN c
     ELSE IF c.b THEN OkJet(g) ELSE OkJet(f)

\* exp, log, sqrt
JetExp(f) ==
  LET s == StdExp(f.val)
  IN OkJet(MkJet(s, SMulArr(s, f.grad)))

JetLog(f) == OkJet(MkJet(StdLog(f.val), ArrDivS(f.grad, f.val)))

\* sqrt with the gradient grad / sqrt(value), the factor 2 forgotten.
JetSqrt_m(f) ==
  LET v == StdSqrt(f.val)
  IN OkJet(MkJet(v, ArrDivS(f.grad, v)))

JetSqrt(f) ==
  LET v == StdSqrt(f.val)
  IN OkJet(MkJet(v, ArrDivS(f.grad, RMul(R(2), v))))

\* Jet::set: val_ and grad_ are overwritten before grad_.at(i) can throw.
JetSetZeroed(f, x) == MkJet(x, ArrAssignZero(f.grad))
\* set() without grad_.assign(grad_.size(), 0): the old gradient stays.
JetSet_m(f, x, i, der) ==
  IF ArrInRange(f.grad, i) THEN MkJet(x, ArrPut(f.grad, i, der)) ELSE MkJet(x, f.grad)

JetSet(f, x, i, der) ==
  IF ArrInRange(f.grad, i)
  THEN MkJet(x, ArrPut(ArrAssignZero(f.grad), i, der))
  ELSE JetSetZeroed(f, x)

\* operator=(const Dtype&) that empties the gradient instead of zeroing it.
JetAssignScalar_m(f, x) == MkJet(x, << >>)
\* Jet::operator=(const Dtype&)
JetAssignScalar(f, x) == MkJet(x, ArrAssignZero(f.grad))

-----------------------------------------------------------------------------
\* State.

VARIABLES
  jet,      \* the caller's jet object a
  last,     \* the operation in progress: its operands as they were, its result
  dimset,   \* the dimensions the caller hands to Dim(...)
  other     \* the caller's other jet r while a statement has it as an operand

vars == <<jet, last, dimset, other>>

Rec(op, lhs, rhs, f, g, s, i, der, res) ==
  [op |-> op, lhs |-> lhs, rhs |-> rhs, f |-> f, g |-> g, s |-> s, i |-> i,
   der |-> der, res |-> res]

Idle == Rec("idle", "-", "-", NoJet, NoJet, Zero, 0, Zero, Fault("none"))

\* A jet the model uses again as an operand.
InBounds(j) == j.val \in InputVals /\ \A k \in 1..Len(j.grad) : j.grad[k] \in Vals

\* The caller is between two statements.
Ready == last.op = "idle"

\* Indices the caller hands in, in and out of range.
Indices == (-1)..MaxDim

\* Jets the caller constructs for one expression: constants and variables.
Fresh ==
  UNION {{JetConst(dm, x) : x \in InputVals}
           \cup {JetVar(dm, x, i, DefaultDerivative).out : x \in InputVals, i \in 0..(dm - 1)} :
         dm \in dimset}

\* The operand pairs of a jet-jet operation: a with a fresh jet on either
\* side, or a with itself.
Operands ==
  {[f |-> jet, g |-> x, lhs |-> "a", rhs |-> "tmp"] : x \in Fresh}
    \cup {[f |-> x, g |-> jet, lhs |-> "tmp", rhs |-> "a"] : x \in Fresh}
    \cup {[f |-> jet, g |-> jet, lhs |-> "a", rhs |-> "a"]}

\* The right-hand sides of a compound assignment to a.
RightSides ==
  {[g |-> x, rhs |-> "tmp"] : x \in Fresh} \cup {[g |-> jet, rhs |-> "a"]}

\* The fresh operand of a jet-jet operation, taken by const reference: it is
\* what it was; none when both operands are a.
FreshOf(o) == IF o.lhs = "tmp" THEN o.f ELSE IF o.rhs = "tmp" THEN o.g ELSE NoJet

\* The right-hand jet r after a op= r (const Jet& f): it is what it was; none
\* when r is a itself.
RightAfter(o) == IF o.rhs = "tmp" THEN o.g ELSE NoJet

Init ==
  /\ dimset \in {Dims} \cup {{dm} : dm \in Dims}
  /\ \E dm \in dimset : jet = JetDefault(dm)
  /\ other = NoJet
  /\ last = Idle

-----------------------------------------------------------------------------
\* Construction and the members that overwrite the object.

\* Jet<Dtype> a(Dim(dm));
ConstructDefault ==
  /\ Ready
  /\ \E dm \in dimset :
      /\ jet' = JetDefault(dm)
      /\ last' = Rec("ctor", "a", "-", NoJet, NoJet, Zero, dm, Zero, OkSelf(JetDefault(dm)))
      /\ UNCHANGED <<dimset, other>>

\* Jet<Dtype> a(Dim(dm), val);
ConstructConst ==
  /\ Ready
  /\ \E dm \in dimset, x \in InputVals :
      /\ jet' = JetConst(dm, x)
      /\ last' = Rec("const", "a", "-", NoJet, NoJet, x, dm, Zero, OkSelf(JetConst(dm, x)))
      /\ UNCHANGED <<dimset, other>>

\* Jet<Dtype> a(Dim(dm), val, i, derivative);  a throwing constructor leaves
\* no new object behind.  last.f is the zero jet of the dimension asked for.
ConstructVar ==
  /\ Ready
  /\ \E dm \in dimset, x \in InputVals, i \in Indices, der \in Vals :
      LET res == JetVar(dm, x, i, der)
      IN /\ jet' = IF res.fault = "none" THEN res.out ELSE jet
         /\ last' = Rec("var", "a", "-", JetDefault(dm), NoJet, x, i, der,
                        IF res.fault = "none" THEN OkSelf(res.out) ELSE res)
         /\ UNCHANGED <<dimset, other>>

\* a.set(val, i, derivative);
Set ==
  /\ Ready
  /\ \E x \in InputVals, i \in Indices, der \in Vals :
      LET new == JetSet(jet, x, i, der)
      IN /\ jet' = new
         /\ last' = Rec("set", "a", "-", jet, NoJet, x, i, der,
                        IF ArrInRange(jet.grad, i) THEN OkSelf(new) ELSE Fault("index"))
         /\ UNCHANGED <<dimset, other>>

\* a = val;  the function ends without a return statement: the assignments
\* are done, after which the call returns or the process crashes.
AssignScalar ==
  /\ Ready
  /\ \E x \in InputVals, outcome \in {"none", "ub"} :
      LET new == JetAssignScalar(jet, x)
      IN /\ jet' = new
         /\ last' = Rec("assign_s", "a", "-", jet, NoJet, x, 0, Zero,
                        IF outcome = "none" THEN OkSelf(new) ELSE Fault("ub"))
         /\ UNCHANGED <<dimset, other>>

\* a = <the jet the operation returned>;  (the implicit copy assignment)
Assign ==
  /\ last.res.kind = "jet"
  /\ InBounds(last.res.out)
  /\ jet' = last.res.out
  /\ last' = Rec("assign", "a", "tmp", jet, last.res.out, Zero, 0, Zero,
                 OkSelf(last.res.out))
  /\ UNCHANGED <<dimset, other>>

\* The statement ends: its temporaries are gone.  A failed CHECK aborts the
\* process, as may undefined behaviour; an exception is caught by the caller.
Discard ==
  /\ ~Ready
  /\ last.res.fault \notin {"shape", "ub"}
  /\ last' = Idle
  /\ other' = NoJet
  /\ UNCHANGED <<jet, dimset>>

-----------------------------------------------------------------------------
\* Indexed access to the tangent vector of a.

\* a.grad_.at(i)
GradAt ==
  /\ Ready
  /\ \E i \in Indices :
      /\ last' = Rec("at", "a", "-", jet, NoJet, Zero, i, Zero,
                     IF ArrInRange(jet.grad, i)
                     THEN OkScalar(jet.grad[i + 1]) ELSE Fault("index"))
      /\ UNCHANGED <<jet, dimset, other>>

\* a.grad_.at(i) = x;
GradAtPut ==
  /\ Ready
  /\ \E i \in Indices, x \in Vals :
      LET ok == ArrInRange(jet.grad, i)
          new == MkJet(jet.val, ArrPut(jet.grad, i, x))
      IN /\ jet' = IF ok THEN new ELSE jet
         /\ last' = Rec("at_put", "a", "-", jet, NoJet, x, i, Zero,
                        IF ok THEN OkSelf(new) ELSE Fault("index"))
         /\ UNCHANGED <<dimset, other>>

\* a.grad_[i]: v_[i] is unchecked; out of range it is undefined behaviour,
\* which reads some value or crashes.
GradIndex ==
  /\ Ready
  /\ \E i \in Indices, junk \in Vals, outcome \in {"none", "ub"} :
      /\ last' = Rec("index", "a", "-", jet, NoJet, Zero, i, Zero,
                     IF ArrInRange(jet.grad, i) THEN OkScalar(jet.grad[i + 1])
                     ELSE IF outcome = "none" THEN OkScalar(junk) ELSE Fault("ub"))
      /\ UNCHANGED <<jet, dimset, other>>

\* a.grad_[i] = x;  out of range the write lands outside the vector or the
\* process crashes.
GradIndexPut ==
  /\ Ready
  /\ \E i \in Indices, x \in Vals, outcome \in {"none", "ub"} :
      LET ok == ArrInRange(jet.grad, i)
          new == MkJet(jet.val, ArrPut(jet.grad, i, x))
      IN /\ jet' = IF ok THEN new ELSE jet
         /\ last' = Rec("index_put", "a", "-", jet, NoJet, x, i, Zero,
                        IF ok THEN OkSelf(new)
                        ELSE IF outcome = "none" THEN OkSelf(jet) ELSE Fault("ub"))
         /\ UNCHANGED <<dimset, other>>

-----------------------------------------------------------------------------
\* Operations that return a new jet or a bool and leave their operands alone.

\* -a
Neg ==
  /\ Ready
  /\ TRUE
  /\ last' = Rec("neg", "a", "-", jet, NoJet, Zero, 0, Zero, JetNeg(jet))
  /\ UNCHANGED <<jet, dimset, other>>

\* exp(a)
Exp ==
  /\ Ready
  /\ HasExp(jet.val)
  /\ last' = Rec("exp", "a", "-", jet, NoJet, Zero, 0, Zero, JetExp(jet))
  /\ UNCHANGED <<jet, dimset, other>>

\* log(a)
Log ==
  /\ Ready
  /\ HasLog(jet.val)
  /\ last' = Rec("log", "a", "-", jet, NoJet, Zero, 0, Zero, JetLog(jet))
  /\ UNCHANGED <<jet, dimset, other>>

\* sqrt(a)
Sqrt ==
  /\ Ready
  /\ HasSqrt(jet.val)
  /\ last' = Rec("sqrt", "a", "-", jet, NoJet, Zero, 0, Zero, JetSqrt(jet))
  /\ UNCHANGED <<jet, dimset, other>>

\* a + s
AddS ==
  /\ Ready
  /\ \E s \in Vals :
      /\ TRUE
      /\ last' = Rec("add_js", "a", "-", jet, NoJet, s, 0, Zero, JetAddS(jet, s))
      /\ UNCHANGED <<jet, dimset, other>>

\* s + a
SAdd ==
  /\ Ready
  /\ \E s \in Vals :
      /\ TRUE
      /\ last' = Rec("add_sj", "a", "-", jet, NoJet, s, 0, Zero, SAddJet(s, jet))
      /\ UNCHANGED <<jet, dimset, other>>

\* a - s
SubS ==
  /\ Ready
  /\ \E s \in Vals :
      /\ TRUE
      /\ last' = Rec("sub_js", "a", "-", jet, NoJet, s, 0, Zero, JetSubS(jet, s))
      /\ UNCHANGED <<jet, dimset, other>>

\* s - a
SSub ==
  /\ Ready
  /\ \E s \in Vals :
      /\ TRUE
      /\ last' = Rec("sub_sj", "a", "-", jet, NoJet, s, 0, Zero, SSubJet(s, jet))
      /\ UNCHANGED <<jet, dimset, other>>

\* a * s
MulS ==
  /\ Ready
  /\ \E s \in Vals :
      /\ TRUE
      /\ last' = Rec("mul_js", "a", "-", jet, NoJet, s, 0, Zero, JetMulS(jet, s))
      /\ UNCHANGED <<jet, dimset, other>>

\* s * a
SMul ==
  /\ Ready
  /\ \E s \in Vals :
      /\ TRUE
      /\ last' = Rec("mul_sj", "a", "-", jet, NoJet, s, 0, Zero, SMulJet(s, jet))
      /\ UNCHANGED <<jet, dimset, other>>

\* a / s
DivS ==
  /\ Ready
  /\ \E s \in Vals :
      /\ s # Zero
      /\ last' = Rec("div_js", "a", "-", jet, NoJet, s, 0, Zero, JetDivS(jet, s))
      /\ UNCHANGED <<jet, dimset, other>>

\* s / a
SDiv ==
  /\ Ready
  /\ \E s \in Vals :
      /\ jet.val # Zero
      /\ last' = Rec("div_sj", "a", "-", jet, NoJet, s, 0, Zero, SDivJet(s, jet))
      /\ UNCHANGED <<jet, dimset, other>>

\* f + g
Add ==
  /\ Ready
  /\ \E o \in Operands :
      /\ TRUE
      /\ last' = Rec("add", o.lhs, o.rhs, o.f, o.g, Zero, 0, Zero, JetAdd(o.f, o.g))
      /\ other' = FreshOf(o)
      /\ UNCHANGED <<jet, dimset>>

\* f - g
Sub ==
  /\ Ready
  /\ \E o \in Operands :
      /\ TRUE
      /\ last' = Rec("sub", o.lhs, o.rhs, o.f, o.g, Zero, 0, Zero, JetSub(o.f, o.g))
      /\ other' = FreshOf(o)
      /\ UNCHANGED <<jet, dimset>>

\* f * g
Mul ==
  /\ Ready
  /\ \E o \in Operands :
      /\ TRUE
      /\ last' = Rec("mul", o.lhs, o.rhs, o.f, o.g, Zero, 0, Zero, JetMul(o.f, o.g))
      /\ other' = FreshOf(o)
      /\ UNCHANGED <<jet, dimset>>

\* f / g
Div ==
  /\ Ready
  /\ \E o \in Operands :
      /\ o.g.val # Zero
      /\ last' = Rec("div", o.lhs, o.rhs, o.f, o.g, Zero, 0, Zero, JetDiv(o.f, o.g))
      /\ other' = FreshOf(o)
      /\ UNCHANGED <<jet, dimset>>

\* f == g
Eq ==
  /\ Ready
  /\ \E o \in Operands :
      /\ TRUE
      /\ last' = Rec("eq", o.lhs, o.rhs, o.f, o.g, Zero, 0, Zero, JetEq(o.f, o.g))
      /\ other' = FreshOf(o)
      /\ UNCHANGED <<jet, dimset>>

\* f != g
Ne ==
  /\ Ready
  /\ \E o \in Operands :
      /\ TRUE
      /\ last' = Rec("ne", o.lhs, o.rhs, o.f, o.g, Zero, 0, Zero, JetNe(o.f, o.g))
      /\ other' = FreshOf(o)
      /\ UNCHANGED <<jet, dimset>>

\* f < g
Lt ==
  /\ Ready
  /\ \E o \in Operands :
      /\ TRUE
      /\ last' = Rec("lt", o.lhs, o.rhs, o.f, o.g, Zero, 0, Zero, JetLt(o.f, o.g))
      /\ other' = FreshOf(o)
      /\ UNCHANGED <<jet, dimset>>

\* f <= g
Le ==
  /\ Ready
  /\ \E o \in Operands :
      /\ TRUE
      /\ last' = Rec("le", o.lhs, o.rhs, o.f, o.g, Zero, 0, Zero, JetLe(o.f, o.g))
      /\ other' = FreshOf(o)
      /\ UNCHANGED <<jet, dimset>>

\* f > g
Gt ==
  /\ Ready
  /\ \E o \in Operands :
      /\ TRUE
      /\ last' = Rec("gt", o.lhs, o.rhs, o.f, o.g, Zero, 0, Zero, JetGt(o.f, o.g))
      /\ other' = FreshOf(o)
      /\ UNCHANGED <<jet, dimset>>

\* f >= g
Ge ==
  /\ Ready
  /\ \E o \in Operands :
      /\ TRUE
      /\ last' = Rec("ge", o.lhs, o.rhs, o.f, o.g, Zero, 0, Zero, JetGe(o.f, o.g))
      /\ other' = FreshOf(o)
      /\ UNCHANGED <<jet, dimset>>

\* max(f, g)
Max ==
  /\ Ready
  /\ \E o \in Operands :
      /\ TRUE
      /\ last' = Rec("max", o.lhs, o.rhs, o.f, o.g, Zero, 0, Zero, JetMax(o.f, o.g))
      /\ other' = FreshOf(o)
      /\ UNCHANGED <<jet, dimset>>

-----------------------------------------------------------------------------
\* Compound assignment on a:  return *this = *this op r;

\* *this = <res> resolved to operator=(const Dtype&) through operator Dtype():
\* the value is taken and the gradient zeroed.
Assigned_m(res) ==
  IF res.fault = "none" THEN JetAssignScalar(jet, res.out.val) ELSE jet

\* The object after *this = <res>: untouched when the operation aborted.
Assigned(res) == IF res.fault = "none" THEN res.out ELSE jet
SelfOf(res) == IF res.fault = "none" THEN OkSelf(res.out) ELSE res

\* a += g
AddAssign ==
  /\ Ready
  /\ \E o \in RightSides :
      LET res == JetAdd(jet, o.g)
      IN /\ TRUE
         /\ InBounds(Assigned(res))
         /\ jet' = Assigned(res)
         /\ last' = Rec("add_eq", "a", o.rhs, jet, o.g, Zero, 0, Zero, SelfOf(res))
         /\ other' = RightAfter(o)
         /\ UNCHANGED dimset

\* a -= g
SubAssign ==
  /\ Ready
  /\ \E o \in RightSides :
      LET res == JetSub(jet, o.g)
      IN /\ TRUE
         /\ InBounds(Assigned(res))
         /\ jet' = Assigned(res)
         /\ last' = Rec("sub_eq", "a", o.rhs, jet, o.g, Zero, 0, Zero, SelfOf(res))
         /\ other' = RightAfter(o)
         /\ UNCHANGED dimset

\* a *= g
MulAssign ==
  /\ Ready
  /\ \E o \in RightSides :
      LET res == JetMul(jet, o.g)
      IN /\ TRUE
         /\ InBounds(Assigned(res))
         /\ jet' = Assigned(res)
         /\ last' = Rec("mul_eq", "a", o.rhs, jet, o.g, Zero, 0, Zero, SelfOf(res))
         /\ other' = RightAfter(o)
         /\ UNCHANGED dimset

\* a /= g
DivAssign ==
  /\ Ready
  /\ \E o \in RightSides :
      LET res == JetDiv(jet, o.g)
      IN /\ o.g.val # Zero
         /\ InBounds(Assigned(res))
         /\ jet' = Assigned(res)
         /\ last' = Rec("div_eq", "a", o.rhs, jet, o.g, Zero, 0, Zero, SelfOf(res))
         /\ other' = RightAfter(o)
         /\ UNCHANGED dimset

\* a += s
AddAssignS ==
  /\ Ready
  /\ \E s \in Vals :
      LET res == JetAddS(jet, s)
      IN /\ TRUE
         /\ InBounds(Assigned(res))
         /\ jet' = Assigned(res)
         /\ last' = Rec("add_eq_s", "a", "-", jet, NoJet, s, 0, Zero, SelfOf(res))
         /\ UNCHANGED <<dimset, other>>

\* a -= s
SubAssignS ==
  /\ Ready
  /\ \E s \in Vals :
      LET res == JetSubS(jet, s)
      IN /\ TRUE
         /\ InBounds(Assigned(res))
         /\ jet' = Assigned(res)
         /\ last' = Rec("sub_eq_s", "a", "-", jet, NoJet, s, 0, Zero, SelfOf(res))
         /\ UNCHANGED <<dimset, other>>

\* a *= s
MulAssignS ==
  /\ Ready
  /\ \E s \in Vals :
      LET res == JetMulS(jet, s)
      IN /\ TRUE
         /\ InBounds(Assigned(res))
         /\ jet' = Assigned(res)
         /\ last' = Rec("mul_eq_s", "a", "-", jet, NoJet, s, 0, Zero, SelfOf(res))
         /\ UNCHANGED <<dimset, other>>

\* a /= s
DivAssignS ==
  /\ Ready
  /\ \E s \in Vals :
      LET res == JetDivS(jet, s)
      IN /\ s # Zero
         /\ InBounds(Assigned(res))
         /\ jet' = Assigned(res)
         /\ last' = Rec("div_eq_s", "a", "-", jet, NoJet, s, 0, Zero, SelfOf(res))
         /\ UNCHANGED <<dimset, other>>

-----------------------------------------------------------------------------

Next ==
  \/ ConstructDefault \/ ConstructConst \/ ConstructVar
  \/ Set \/ AssignScalar \/ Assign \/ Discard
  \/ GradAt \/ GradAtPut \/ GradIndex \/ GradIndexPut
  \/ Neg \/ Exp \/ Log \/ Sqrt
  \/ AddS \/ SAdd \/ SubS \/ SSub \/ MulS \/ SMul \/ DivS \/ SDiv
  \/ Add \/ Sub \/ Mul \/ Div
  \/ Eq \/ Ne \/ Lt \/ Le \/ Gt \/ Ge \/ Max
  \/ AddAssign \/ SubAssign \/ MulAssign \/ DivAssign
  \/ AddAssignS \/ SubAssignS \/ MulAssignS \/ DivAssignS

Spec == Init /\ [][Next]_vars

-----------------------------------------------------------------------------
\* Properties.

Out == last.res.out
X == last.f.val
Y == last.g.val
GX == last.f.grad
GY == last.g.grad
SameShape == Len(GX) = Len(GY)
NonZeroGrad(v) == \E k \in 1..Len(v) : v[k] # Zero

\* C1: product rule. For jets f = (x, gx) and g = (y, gy) of equal dimension,
\* f * g has value x*y, gradient component i equal to x*gy[i] + y*gx[i], and
\* the dimension of its operands.
C1_ProductRule ==
  (last.op = "mul" /\ SameShape) =>
    /\ last.res.kind = "jet"
    /\ Out.val = RMul(X, Y)
    /\ Len(Out.grad) = Len(GX)
    /\ \A k \in 1..Len(GX) :
         Out.grad[k] = RAdd(RMul(X, GY[k]), RMul(Y, GX[k]))

C1_Witness ==
  /\ last.op = "mul" /\ SameShape /\ Len(GX) = 2
  /\ X # Zero /\ Y # Zero /\ X # Y
  /\ NonZeroGrad(GX) /\ NonZeroGrad(GY) /\ GX # GY
  /\ \A k \in 1..2 : Out.grad[k] # Zero

\* C2: quotient rule. For jets f = (x, gx) and g = (y, gy) of equal dimension
\* with y # 0, f / g has value x/y and gradient component i equal to
\* gx[i]/y - x*gy[i]/(y*y).
C2_QuotientRule ==
  (last.op = "div" /\ SameShape /\ Y # Zero) =>
    /\ last.res.kind = "jet"
    /\ Out.val = RDiv(X, Y)
    /\ Len(Out.grad) = Len(GX)
    /\ \A k \in 1..Len(GX) :
         Out.grad[k] = RSub(RDiv(GX[k], Y), RDiv(RMul(X, GY[k]), RMul(Y, Y)))

C2_Witness ==
  /\ last.op = "div" /\ SameShape /\ Len(GX) = 2
  /\ X # Zero /\ RMul(Y, Y) # Y /\ RMul(Y, Y) # One
  /\ NonZeroGrad(GX) /\ NonZeroGrad(GY)
  /\ \E k \in 1..2 : GX[k] # Zero /\ GY[k] # Zero

CheckedOps ==
  {"add", "sub", "mul", "div", "add_eq", "sub_eq", "mul_eq", "div_eq",
   "eq", "ne", "lt", "le", "ge", "max"}

C4_ShapeMismatchFatal ==
  /\ (last.op \in CheckedOps /\ ~SameShape) =>
       /\ last.res.fault = "shape"
       /\ last.res.kind = "none"
       /\ ~ENABLED Next
  /\ (last.op = "gt" /\ ~SameShape) =>
       /\ last.res.fault = "none"
       /\ last.res.kind = "bool"
  /\ (last.op \in CheckedOps /\ last.res.kind \in {"jet", "self"}) =>
       /\ SameShape
       /\ Len(Out.grad) = Len(GX)

C4_Witness ==
  /\ last.op = "ge" /\ ~SameShape
  /\ last.res.fault = "shape"
  /\ RGe(X, Y)

\* C5 as claimed: every indexed read or write of a tangent vector, through
\* at() or operator[], and every variable constructor or set() call, with an
\* index outside [0, n) fails with an index error.
IndexedOps == {"at", "at_put", "index", "index_put", "var", "set"}

C5_AnyIndexChecked ==
  (last.op \in IndexedOps /\ ~ArrInRange(GX, last.i)) =>
    /\ last.res.fault = "index"
    /\ last.res.kind = "none"

\* C5 amended: a read or write through at(), the variable constructor and
\* set() fail with an index error when the index is outside [0, n), and
\* only then; at() leaves the vector as it was, the constructor produces no
\* jet, and set() has by then stored the value and zeroed the gradient.
\* (operator[] is unchecked.)
C5_AtChecked ==
  (last.op \in {"at", "at_put", "var", "set"}) =>
    /\ ~ArrInRange(GX, last.i) =>
         /\ last.res.fault = "index"
         /\ last.res.kind = "none"
         /\ last.op \in {"at", "at_put"} => jet = last.f
         /\ last.op = "set" =>
              /\ jet.val = last.s
              /\ Len(jet.grad) = Len(GX)
              /\ \A k \in 1..Len(GX) : jet.grad[k] = Zero
    /\ ArrInRange(GX, last.i) => last.res.fault = "none"

C5_Witness ==
  /\ last.op = "var"
  /\ last.i = Len(GX)
  /\ last.res.fault = "index"

\* C6: set() is a destructive reset. Whatever was done to the jet before,
\* after set(value, index, derivative) with 0 <= index < dim its value is
\* `value`, gradient[index] is `derivative`, every other component is 0 and
\* its dimension is what it was.
C6_SetResets ==
  (last.op = "set" /\ ArrInRange(GX, last.i)) =>
    /\ last.res.fault = "none"
    /\ jet.val = last.s
    /\ Len(jet.grad) = Len(GX)
    /\ \A k \in 1..Len(GX) :
         jet.grad[k] = IF k = last.i + 1 THEN last.der ELSE Zero

C6_Witness ==
  /\ last.op = "set" /\ ArrInRange(GX, last.i)
  /\ Len(GX) = 2
  /\ \A k \in 1..2 : GX[k] # Zero
  /\ X # last.s
  /\ last.der \notin {Zero, One}

\* C7: scalar-constant rule. f + s, s + f and f - s return a jet with the
\* gradient of f, every component unchanged, and the value x + s, s + x and
\* x - s; f is not modified.
C7_ScalarConstant ==
  (last.op \in {"add_js", "add_sj", "sub_js"}) =>
    /\ last.res.kind = "jet"
    /\ Len(Out.grad) = Len(GX)
    /\ \A k \in 1..Len(GX) : Out.grad[k] = GX[k]
    /\ last.op = "add_js" => Out.val = RAdd(X, last.s)
    /\ last.op = "add_sj" => Out.val = RAdd(last.s, X)
    /\ last.op = "sub_js" => Out.val = RSub(X, last.s)
    /\ jet = last.f

C7_Witness ==
  /\ last.op = "sub_js"
  /\ last.s \notin {Zero, X}
  /\ X # Zero
  /\ Len(GX) = 2 /\ \A k \in 1..2 : GX[k] # Zero

\* C8: comparisons look at the value only. On jets of equal dimension each of
\* ==, !=, <, <=, >, >= returns what the same comparison of the two values
\* returns, whatever the gradients.
C8_CompareValueOnly ==
  (last.op \in {"eq", "ne", "lt", "le", "gt", "ge"} /\ SameShape) =>
    /\ last.res.kind = "bool"
    /\ last.op = "eq" => (last.res.b <=> (X = Y))
    /\ last.op = "ne" => (last.res.b <=> (X # Y))
    /\ last.op = "lt" => (last.res.b <=> RLt(X, Y))
    /\ last.op = "le" => (last.res.b <=> (RLt(X, Y) \/ X = Y))
    /\ last.op = "gt" => (last.res.b <=> RLt(Y, X))
    /\ last.op = "ge" => (last.res.b <=> (RLt(Y, X) \/ X = Y))

\* Equal values, different gradients: the jets compare equal.
C8_Witness ==
  /\ last.op = "eq" /\ SameShape
  /\ X = Y /\ GX # GY
  /\ last.res.b

\* C9: max(f, g) on jets of equal dimension returns the whole pair of one
\* operand: g when value(f) < value(g), otherwise f, so f at a tie.
C9_MaxSelectsPair ==
  (last.op = "max" /\ SameShape) =>
    /\ last.res.kind = "jet"
    /\ RLt(X, Y) => Out = last.g
    /\ ~RLt(X, Y) => Out = last.f

C9_Witness ==
  /\ last.op = "max" /\ SameShape
  /\ X = Y /\ GX # GY
  /\ Out = last.f

\* C10: dimension is invariant. When every jet is constructed with the one
\* dimension n, every jet that exists after any sequence of operations, the
\* object, an operand or a result, has gradient length n and dim() n.
C10_DimInvariant ==
  \A n \in Dims :
    dimset = {n} =>
      /\ Len(jet.grad) = n
      /\ JetDim(jet) = n
      /\ last.res.kind \in {"jet", "self"} => JetDim(Out) = n
      /\ last.f # NoJet => JetDim(last.f) = n
      /\ last.g # NoJet => JetDim(last.g) = n

\* a, of dimension 2 and with both derivatives set, after a /= g changed it.
C10_Witness ==
  /\ dimset = {2}
  /\ last.op = "div_eq"
  /\ last.res.kind = "self"
  /\ jet # last.f
  /\ \A k \in 1..2 : GX[k] # Zero /\ jet.grad[k] # Zero
  /\ JetDim(jet) = 2

\* The binary operation a compound assignment stands for, on the operands the
\* call was given.
BinaryOf(op) ==
  CASE op = "add_eq" -> JetAdd(last.f, last.g)
    [] op = "sub_eq" -> JetSub(last.f, last.g)
    [] op = "mul_eq" -> JetMul(last.f, last.g)
    [] op = "div_eq" -> JetDiv(last.f, last.g)
    [] op = "add_eq_s" -> JetAddS(last.f, last.s)
    [] op = "sub_eq_s" -> JetSubS(last.f, last.s)
    [] op = "mul_eq_s" -> JetMulS(last.f, last.s)
    [] op = "div_eq_s" -> JetDivS(last.f, last.s)

JetCompoundOps == {"add_eq", "sub_eq", "mul_eq", "div_eq"}
ScalarCompoundOps == {"add_eq_s", "sub_eq_s", "mul_eq_s", "div_eq_s"}

\* C11: compound assignment equals the binary operation. After a op= r, with
\* r a jet of a's dimension or a scalar, a holds the value and gradient of
\* a op r computed from a as it was before the call, and the call returns a;
\* a distinct right-hand jet r is what it was; when r is a itself the operand
\* read is a as it was before the call.
C11_CompoundEqualsBinary ==
  /\ (last.op \in JetCompoundOps /\ SameShape) =>
        /\ last.res.fault = "none"
        /\ jet = BinaryOf(last.op).out
        /\ last.res.kind = "self" /\ Out = jet
        /\ last.rhs = "tmp" => other = last.g
        /\ last.rhs = "a" => last.g = last.f
  /\ last.op \in ScalarCompoundOps =>
        /\ last.res.fault = "none"
        /\ jet = BinaryOf(last.op).out
        /\ last.res.kind = "self" /\ Out = jet

\* a *= a on a jet with non-zero value and derivative: the gradient becomes
\* 2 * a * a', computed from the a of before the call.
C11_Witness ==
  /\ last.op = "mul_eq" /\ last.rhs = "a"
  /\ X # Zero /\ NonZeroGrad(GX)
  /\ jet # last.f
  /\ jet.val = RMul(X, X)
  /\ \A k \in 1..Len(GX) : jet.grad[k] = RMul(R(2), RMul(X, GX[k]))

====
